---- MODULE Spec2Model ----
(***************************************************************************)
(* A model of the Deep-Research local agent: the search-result             *)
(* deduplicator/formatter and the reasoning-marker stripper of             *)
(* src/src/tools.py, the search collaborators of the same file, and the    *)
(* Streamlit session of src/ai_domain_deep_research_agent.py.              *)
(*                                                                         *)
(* Python values.  A str is a sequence of one-character strings, so that   *)
(* len(), slicing, find() and strip() are computed on characters.  A dict  *)
(* holding a search record is a record over the four canonical keys, with  *)
(* Missing standing for an absent key.                                     *)
(***************************************************************************)
EXTENDS Integers, Sequences, FiniteSets, TLC

VARIABLES
    \* deduplicate_and_format_sources: its arguments and its outcome
    search_response, max_tokens_per_source, fetch_full_page, formatted,
    \* strip_thinking_tokens: its local text and where it stands
    text, strip_pc,
    \* a search collaborator: the provider called, what the provider's
    \* service does, and the collaborator's outcome
    search_call, search_result,
    \* research_question: what the providers and the model do, its outcome
    rq_call, rq_result,
    \* st.session_state
    questions, question_answers, report_content, research_complete,
    \* the rerun of main: the stage it is in, the loop of lines 250-265 (the
    \* index of the question at hand, the local question_answers)
    pc, loop_i, local_question_answers,
    \* history: the stages that have run to their end at least once
    completed,
    \* save_report_as_html / compile_report called alone: the call and its
    \* outcome
    save_call, save_result

fmt_vars == <<search_response, max_tokens_per_source, fetch_full_page, formatted>>
strip_vars == <<text, strip_pc>>

search_vars == <<search_call, search_result>>
rq_vars == <<rq_call, rq_result>>

sess_vars == <<questions, question_answers, report_content, research_complete,
               pc, loop_i, local_question_answers, completed>>

save_vars == <<save_call, save_result>>

vars == <<fmt_vars, strip_vars, search_vars, rq_vars, sess_vars, save_vars>>

---------------------------------------------------------------------------
(* Bounds of the model *)

MaxRecords == 4       \* records in a deduplication input
MaxFullRecords == 2   \* records in a full-content / rendering input
MaxRawLen == 5        \* non-blank characters of a raw_content
MaxTokens == 1        \* largest max_tokens_per_source
MaxPieces == 4        \* pieces a text given to strip_thinking_tokens is made of
MaxTextLen == 34      \* characters of a text while it is stripped
MaxHits == 2          \* hits a provider returns to a collaborator called alone
MaxTitleLen == 3      \* characters of a title given to save_report_as_html
MaxQuestionsText == 4 \* characters of the text the questions are split from

---------------------------------------------------------------------------
(* Python values *)

Missing == [k |-> "missing"]
None == [k |-> "none"]
Str(s) == [k |-> "str", s |-> s]

Truthy(v) == v.k = "str" /\ v.s # <<>>

Get(d, key, default) == IF d[key] = Missing THEN default ELSE d[key]

Fmt(v) == IF v = None THEN <<"N", "o", "n", "e">> ELSE v.s

Return(v) == [status |-> "return", value |-> v]
Raise(e) == [status |-> "raise", exc |-> e]
Pending == [status |-> "pending"]

Min(a, b) == IF a <= b THEN a ELSE b
Max(a, b) == IF a >= b THEN a ELSE b

\* s[:n]
Slice(s, n) ==
    IF n >= 0 THEN SubSeq(s, 1, Min(n, Len(s)))
    ELSE SubSeq(s, 1, Max(0, Len(s) + n))

\* A dict as a response: whether it has the key 'results', the list under
\* it, and its keys in insertion order (what iterating the dict yields).
Dict(has, results, keys) ==
    [ty |-> "dict", has_results |-> has, results |-> results, keys |-> keys]
List(items) == [ty |-> "list", items |-> items]
Other == [ty |-> "other"]

RecordKeys == <<"title", "url", "content", "raw_content">>

Resp(records) == Dict(TRUE, records, <<"results">>)
RecordAsResponse(r) ==
    Dict(FALSE, <<>>, SelectSeq(RecordKeys, LAMBDA key : r[key] # Missing))

\* A str met where a record is expected (a key of an iterated dict).
KeyStr(name) == [pystr |-> name]
IsKeyStr(x) == "pystr" \in DOMAIN x

---------------------------------------------------------------------------
(* Each function is checked from its own initial states; there the state   *)
(* of the others is at rest.                                               *)

\* No call of deduplicate_and_format_sources is under way.
NoFormat ==
    /\ search_response = Other
    /\ max_tokens_per_source = 0
    /\ fetch_full_page = FALSE
    /\ formatted = Pending

\* No call of strip_thinking_tokens is under way.
NoStrip == text = <<>> /\ strip_pc = "idle"

\* No search collaborator is being called.
NoSearch == search_call = Other /\ search_result = Pending

\* research_question is not being called.
NoResearch == rq_call = Other /\ rq_result = Pending

\* Neither save_report_as_html nor compile_report is being called alone.
NoSave == save_call = Other /\ save_result = Pending

\* The session as lines 155-162 set it up, main at rest.
NoSession ==
    /\ questions = <<>> /\ question_answers = <<>>
    /\ report_content = <<>> /\ research_complete = FALSE
    /\ pc = "idle" /\ loop_i = 0 /\ local_question_answers = <<>>
    /\ completed = {}

---------------------------------------------------------------------------
(* Text: a sequence of segments, a literal of the format string, a         *)
(* formatted value (characters) or a formatted number.                     *)

L(s) == [lit |-> s]
V(chars) == [val |-> chars]
N(n) == [num |-> n]
IsLit(x) == "lit" \in DOMAIN x
IsVal(x) == "val" \in DOMAIN x

WhitespaceChars == {" ", "\n", "\t"}

TruncationMarker == L("... [truncated]")
CharsPerToken == 4

RECURSIVE RStripChars(_)
RStripChars(s) ==
    IF s # <<>> /\ s[Len(s)] \in WhitespaceChars
    THEN RStripChars(SubSeq(s, 1, Len(s) - 1))
    ELSE s

RECURSIVE RStrip(_)
RStrip(txt) ==
    IF txt = <<>> THEN <<>>
    ELSE LET last == txt[Len(txt)]
             front == SubSeq(txt, 1, Len(txt) - 1)
         IN  IF IsLit(last)
             THEN IF last.lit \in WhitespaceChars THEN RStrip(front) ELSE txt
             ELSE IF IsVal(last)
             THEN LET r == RStripChars(last.val)
                  IN  IF r = <<>> THEN RStrip(front) ELSE Append(front, V(r))
             ELSE txt

RECURSIVE LStripChars(_)
LStripChars(s) ==
    IF s # <<>> /\ Head(s) \in WhitespaceChars THEN LStripChars(Tail(s)) ELSE s

RECURSIVE LStrip(_)
LStrip(txt) ==
    IF txt = <<>> THEN <<>>
    ELSE LET first == Head(txt)
         IN  IF IsLit(first)
             THEN IF first.lit \in WhitespaceChars THEN LStrip(Tail(txt)) ELSE txt
             ELSE IF IsVal(first)
             THEN LET r == LStripChars(first.val)
                  IN  IF r = <<>> THEN LStrip(Tail(txt)) ELSE <<V(r)>> \o Tail(txt)
             ELSE txt

\* str.strip()
Strip(txt) == LStrip(RStrip(txt))

---------------------------------------------------------------------------
(* strip_thinking_tokens *)

OpenMarker == <<"<", "t", "h", "i", "n", "k", ">">>
CloseMarker == <<"<", "/", "t", "h", "i", "n", "k", ">">>

StartsAt(s, sub, i) ==
    /\ i + Len(sub) <= Len(s)
    /\ \A j \in 1..Len(sub) : s[i + j] = sub[j]

\* str.find: the lowest index (from 0) where sub starts, -1 when nowhere.
Find(s, sub) ==
    LET at == {i \in 0..Len(s) : StartsAt(s, sub, i)}
    IN  IF at = {} THEN -1 ELSE CHOOSE i \in at : \A j \in at : i <= j

\* sub in s
Contains(s, sub) == Find(s, sub) # -1

\* s[n:]
SliceFrom(s, n) == SubSeq(s, Min(n, Len(s)) + 1, Len(s))

\* lines 28-30: one turn of the loop, on a text holding both markers.
StripOnce(t) ==
    LET start == Find(t, OpenMarker)
        end == Find(t, CloseMarker) + Len(CloseMarker)
    IN  Slice(t, start) \o SliceFrom(t, end)

LoopCondition(t) == Contains(t, OpenMarker) /\ Contains(t, CloseMarker)

RECURSIVE Joined(_)
Joined(pieces) ==
    IF pieces = <<>> THEN <<>> ELSE Head(pieces) \o Joined(Tail(pieces))

\* The markers, a plain character, and the two halves of an opening marker
\* (which a removal can bring together).
Pieces ==
    {OpenMarker, CloseMarker, <<"q">>, <<"<", "t", "h", "i">>, <<"n", "k", ">">>}

StripInputs(max) ==
    UNION {{Joined(ps) : ps \in [1..n -> Pieces]} : n \in 0..max}

InitStrip ==
    /\ NoFormat /\ NoSearch /\ NoResearch /\ NoSession /\ NoSave
    /\ text \in StripInputs(MaxPieces)
    /\ strip_pc = "while"

\* line 27: the test of the loop; line 31 when it fails.
StripTest ==
    /\ strip_pc = "while"
    /\ strip_pc' = IF LoopCondition(text) THEN "body" ELSE "return"
    /\ UNCHANGED text
    /\ UNCHANGED <<fmt_vars, search_vars, rq_vars, sess_vars, save_vars>>

\* lines 28-30: the body of the loop.
StripBody ==
    /\ strip_pc = "body"
    /\ Len(StripOnce(text)) <= MaxTextLen
    /\ text' = StripOnce(text)
    /\ strip_pc' = "while"
    /\ UNCHANGED <<fmt_vars, search_vars, rq_vars, sess_vars, save_vars>>

NextStrip == StripTest \/ StripBody

\* The loop is sequential code: a turn that can be taken is taken.
FairSpecStrip == InitStrip /\ [][NextStrip]_vars /\ WF_vars(NextStrip)

\* C7: strip_thinking_tokens returns for every input text.
C7_Terminates == <>(strip_pc = "return")

---------------------------------------------------------------------------
(* deduplicate_and_format_sources *)

NoTitle == <<"N", "o", " ", "T", "i", "t", "l", "e">>

\* lines 44-49: every response extends sources_list, by its 'results' when
\* it is a dict holding that key, by its own elements otherwise (the keys
\* of a dict, the items of a list).
RECURSIVE Flatten(_)
Flatten(responses) ==
    IF responses = <<>> THEN <<>>
    ELSE LET response == Head(responses)
         IN  (IF response.ty = "dict" /\ response.has_results
              THEN response.results
              ELSE IF response.ty = "dict"
              THEN [i \in 1..Len(response.keys) |-> KeyStr(response.keys[i])]
              ELSE response.items)
             \o Flatten(Tail(responses))

HasUrl(unique_sources, url) ==
    \E i \in 1..Len(unique_sources) : unique_sources[i].url = url

\* Mutants of lines 53-56: the url test without "not in unique_sources" (a
\* later record overwrites the first under its key), and without the
\* truthiness test (None and '' become keys).
ReplaceUrl(unique_sources, source) ==
    [i \in 1..Len(unique_sources) |->
        IF unique_sources[i].url = source.url THEN source ELSE unique_sources[i]]

RECURSIVE UniqueSourcesKeepLast(_, _)
UniqueSourcesKeepLast(sources_list, unique_sources) ==
    IF sources_list = <<>> THEN Return(unique_sources)
    ELSE LET source == Head(sources_list)
         IN  IF IsKeyStr(source) THEN Raise("AttributeError")
             ELSE IF Truthy(Get(source, "url", None))
             THEN UniqueSourcesKeepLast(Tail(sources_list),
                      IF HasUrl(unique_sources, source.url)
                      THEN ReplaceUrl(unique_sources, source)
                      ELSE Append(unique_sources, source))
             ELSE UniqueSourcesKeepLast(Tail(sources_list), unique_sources)

RECURSIVE UniqueSourcesAnyUrl(_, _)
UniqueSourcesAnyUrl(sources_list, unique_sources) ==
    IF sources_list = <<>> THEN Return(unique_sources)
    ELSE LET source == Head(sources_list)
         IN  IF IsKeyStr(source) THEN Raise("AttributeError")
             ELSE IF ~HasUrl(unique_sources, source.url)
             THEN UniqueSourcesAnyUrl(Tail(sources_list), Append(unique_sources, source))
             ELSE UniqueSourcesAnyUrl(Tail(sources_list), unique_sources)

\* lines 53-56: unique_sources is a dict keyed by url, which keeps the
\* order of insertion; source.get on a str raises AttributeError.
RECURSIVE UniqueSources(_, _)
UniqueSources(sources_list, unique_sources) ==
    IF sources_list = <<>> THEN Return(unique_sources)
    ELSE LET source == Head(sources_list)
         IN  IF IsKeyStr(source) THEN Raise("AttributeError")
             ELSE IF Truthy(Get(source, "url", None))
                     /\ ~HasUrl(unique_sources, source.url)
             THEN UniqueSources(Tail(sources_list), Append(unique_sources, source))
             ELSE UniqueSources(Tail(sources_list), unique_sources)

\* Mutant of line 66: ">=" for ">".
FullContentOffByOne(source, max_tokens) ==
    LET char_limit == max_tokens * CharsPerToken
        got == Get(source, "raw_content", Str(<<>>))
        raw_content == IF Truthy(got) THEN got.s ELSE <<>>
    IN  <<L("Full source content limited to "), N(max_tokens), L(" tokens:"), L(" ")>>
        \o (IF Len(raw_content) >= char_limit
            THEN <<V(Slice(raw_content, char_limit)), TruncationMarker>>
            ELSE <<V(raw_content)>>)
        \o <<L("\n"), L("\n")>>

\* lines 63-68
FullContent(source, max_tokens) ==
    LET char_limit == max_tokens * CharsPerToken
        got == Get(source, "raw_content", Str(<<>>))
        raw_content == IF Truthy(got) THEN got.s ELSE <<>>
    IN  <<L("Full source content limited to "), N(max_tokens), L(" tokens:"), L(" ")>>
        \o (IF Len(raw_content) > char_limit
            THEN <<V(Slice(raw_content, char_limit)), TruncationMarker>>
            ELSE <<V(raw_content)>>)
        \o <<L("\n"), L("\n")>>

\* lines 60-68
Stanza(source, max_tokens, fetch_full) ==
    <<L("Source: "), V(Fmt(Get(source, "title", Str(NoTitle)))), L("\n==="), L("\n"),
      L("URL: "), V(Fmt(Get(source, "url", None))), L("\n==="), L("\n"),
      L("Most relevant content from source: "),
      V(Fmt(Get(source, "content", Str(<<>>)))), L("\n==="), L("\n")>>
    \o (IF fetch_full THEN FullContent(source, max_tokens) ELSE <<>>)

RECURSIVE Stanzas(_, _, _)
Stanzas(sources, max_tokens, fetch_full) ==
    IF sources = <<>> THEN <<>>
    ELSE Stanza(Head(sources), max_tokens, fetch_full)
         \o Stanzas(Tail(sources), max_tokens, fetch_full)

\* lines 58-70
FormatSources(unique_sources, max_tokens, fetch_full) ==
    Strip(<<L("Sources:"), L("\n"), L("\n")>>
          \o Stanzas(unique_sources, max_tokens, fetch_full))

\* lines 41-51
SourcesList(response) ==
    IF response.ty = "dict"
    THEN Return(IF response.has_results THEN response.results ELSE <<>>)
    ELSE IF response.ty = "list"
    THEN Return(Flatten(response.items))
    ELSE Raise("ValueError")

deduplicate_and_format_sources(response, max_tokens, fetch_full) ==
    LET sources_list == SourcesList(response)
    IN  IF sources_list.status = "raise" THEN sources_list
        ELSE LET unique_sources == UniqueSources(sources_list.value, <<>>)
             IN  IF unique_sources.status = "raise" THEN unique_sources
                 ELSE Return(FormatSources(unique_sources.value, max_tokens, fetch_full))

---------------------------------------------------------------------------
(* The inputs of deduplicate_and_format_sources.  A record is told from    *)
(* the others of its input by its position, which its title and content    *)
(* carry.                                                                  *)

Digit == <<"1", "2", "3", "4", "5", "6", "7", "8", "9">>
Title(i) == <<"T", Digit[i]>>
Content(i) == <<"C", Digit[i]>>
PageUrl(i) == <<"u", Digit[i]>>

Urls == {Missing, None, Str(<<>>), Str(<<"a">>), Str(<<"b">>), Str(<<"c">>)}

Record(title, url, content, raw_content) ==
    [title |-> title, url |-> url, content |-> content, raw_content |-> raw_content]

DedupRecords(us) ==
    [i \in 1..Len(us) |-> Record(Str(Title(i)), us[i], Str(Content(i)), Missing)]

\* The records as one mapping (k = -1), or as a sequence of two mappings
\* holding the first k records and the others.
DedupInput(us, k) ==
    LET records == DedupRecords(us)
    IN  IF k = -1 THEN Resp(records)
        ELSE List(<<Resp(SubSeq(records, 1, k)),
                    Resp(SubSeq(records, k + 1, Len(records)))>>)

Repeat(c, n) == [i \in 1..n |-> c]

BlankTails == {<<>>, <<" ">>, <<" ", "\n">>}

\* A body of non-blank characters followed by blanks, absent, or None.
RawContents ==
    {Missing, None}
    \cup {Str(Repeat("x", i) \o tail) : i \in 0..MaxRawLen, tail \in BlankTails}

FullInputs(max) ==
    UNION {
        {Resp([i \in 1..n |->
                 Record(Str(Title(i)), Str(PageUrl(i)), Str(Content(i)), raws[i])])
            : raws \in [1..n -> RawContents]}
        : n \in 0..max}

\* Records whose title and content are absent, None or a str.
RenderInputs(max) ==
    UNION {
        {Resp([i \in 1..n |-> Record(ts[i], Str(PageUrl(i)), cs[i], Missing)])
            : <<ts, cs>> \in [1..n -> {Missing, None, Str(Title(1))}]
                             \X [1..n -> {Missing, None, Str(Content(1))}]}
        : n \in 0..max}

EmptyRecord == Record(Missing, Missing, Missing, Missing)
ShapeRecords ==
    {Record(Str(Title(1)), Str(<<"a">>), Str(Content(1)), Missing),
     Record(Str(Title(2)), None, Str(Content(2)), Missing)}

ShapeElements ==
    {Resp(<<>>), List(<<>>), RecordAsResponse(EmptyRecord)}
    \cup UNION {{Resp(<<r>>), List(<<r>>), RecordAsResponse(r)} : r \in ShapeRecords}

\* Every shape of argument: a non-container, a dict without 'results', and
\* lists of mappings, of raw record dicts and of plain lists of records.
ShapeInputs(max) ==
    {Other}
    \cup {RecordAsResponse(r) : r \in ShapeRecords \cup {EmptyRecord}}
    \cup UNION {{List(es) : es \in [1..n -> ShapeElements]} : n \in 0..max}

InitFormat ==
    /\ NoStrip /\ NoSearch /\ NoResearch /\ NoSession /\ NoSave
    /\ formatted = Pending
    /\ \/ /\ \/ \E n \in 0..MaxRecords : \E us \in [1..n -> Urls] : \E k \in {-1, n \div 2, n} :
                    search_response = DedupInput(us, k)
             \/ search_response \in RenderInputs(MaxFullRecords)
             \/ search_response \in ShapeInputs(MaxFullRecords)
          /\ max_tokens_per_source = MaxTokens
          /\ fetch_full_page = FALSE
       \/ /\ search_response \in FullInputs(MaxFullRecords)
          /\ max_tokens_per_source \in 0..MaxTokens
          /\ fetch_full_page \in BOOLEAN

Format ==
    /\ formatted = Pending
    /\ formatted' = deduplicate_and_format_sources(search_response,
                        max_tokens_per_source, fetch_full_page)
    /\ UNCHANGED <<search_response, max_tokens_per_source, fetch_full_page>>
    /\ UNCHANGED <<strip_vars, search_vars, rq_vars, sess_vars, save_vars>>

NextFormat == Format

SpecFormat == InitFormat /\ [][NextFormat]_vars

---------------------------------------------------------------------------
(* Reading a formatted text back: its stanzas, and the records of the      *)
(* input they are claimed to stand for.                                    *)

IsMapping(r) == r.ty = "dict" /\ r.has_results

\* A mapping with 'results', or a sequence of such mappings.
Accepted(r) ==
    \/ IsMapping(r)
    \/ r.ty = "list" /\ \A i \in 1..Len(r.items) : IsMapping(r.items[i])

RECURSIVE ConcatResults(_)
ConcatResults(mappings) ==
    IF mappings = <<>> THEN <<>>
    ELSE Head(mappings).results \o ConcatResults(Tail(mappings))

FlatInput == 
    IF IsMapping(search_response) THEN search_response.results
    ELSE ConcatResults(search_response.items)

Keyless(record) == record.url \in {Missing, None, Str(<<>>)}

Indices(s) == [i \in 1..Len(s) |-> i]

\* The positions of the first record of every distinct non-empty url.
FirstOccurrences(flat) ==
    SelectSeq(Indices(flat),
              LAMBDA i : /\ ~Keyless(flat[i])
                         /\ \A j \in 1..(i - 1) : flat[j].url # flat[i].url)

StanzaStarts(txt) == SelectSeq(Indices(txt), LAMBDA i : txt[i] = L("Source: "))

StanzaAt(txt, i) ==
    [title |-> txt[i + 1].val, url |-> txt[i + 5].val, content |-> txt[i + 9].val]

\* The stanza shows the record's url, and its title and content where the
\* record has them.
Carries(stanza, record) ==
    /\ record.url.k = "str" /\ stanza.url = record.url.s
    /\ record.title.k = "str" => stanza.title = record.title.s
    /\ record.content.k = "str" => stanza.content = record.content.s

\* The stanza shows the title and content of a record that has no url.
CarriesKeyless(stanza, record) ==
    /\ record.title.k = "str" /\ stanza.title = record.title.s
    /\ record.content.k = "str" /\ stanza.content = record.content.s

Returned == formatted.status = "return"

\* C1: for an accepted input the stanzas are, in order, the first
\* occurrences of the distinct non-empty urls of the flattened input, each
\* with the title and content of the first record seen with that url.
C1_FirstOccurrenceStanzas ==
    (formatted # Pending /\ Accepted(search_response)) =>
        /\ Returned
        /\ LET firsts == FirstOccurrences(FlatInput)
               starts == StanzaStarts(formatted.value)
           IN  /\ Len(starts) = Len(firsts)
               /\ \A k \in 1..Len(firsts) :
                    Carries(StanzaAt(formatted.value, starts[k]), FlatInput[firsts[k]])

UrlsOf(flat) == [i \in 1..Len(flat) |-> flat[i].url]

C1_Witness ==
    /\ Returned /\ Accepted(search_response)
    /\ UrlsOf(FlatInput) = <<Str(<<"a">>), Str(<<"b">>), Str(<<"a">>), Str(<<"c">>)>>
    /\ LET starts == StanzaStarts(formatted.value)
       IN  [k \in 1..Len(starts) |-> StanzaAt(formatted.value, starts[k]).url]
             = <<(<<"a">>), (<<"b">>), (<<"c">>)>>

\* C2 as stated: two records without a url each get a stanza of their own.
C2_KeylessSurvive ==
    (Returned /\ Accepted(search_response)) =>
        LET starts == StanzaStarts(formatted.value)
        IN  \A i, j \in 1..Len(FlatInput) :
              (i # j /\ Keyless(FlatInput[i]) /\ Keyless(FlatInput[j])) =>
                \E ki, kj \in 1..Len(starts) :
                    /\ ki # kj
                    /\ CarriesKeyless(StanzaAt(formatted.value, starts[ki]), FlatInput[i])
                    /\ CarriesKeyless(StanzaAt(formatted.value, starts[kj]), FlatInput[j])

\* C2 amended: a record without a url is never a dedup key and gets no
\* stanza: every stanza stands for a record with a non-empty url, and no
\* stanza shows the title and content of a record without one.
C2_KeylessOmitted ==
    (Returned /\ Accepted(search_response)) =>
        LET starts == StanzaStarts(formatted.value)
        IN  /\ \A k \in 1..Len(starts) :
                 \E i \in 1..Len(FlatInput) :
                    /\ ~Keyless(FlatInput[i])
                    /\ Carries(StanzaAt(formatted.value, starts[k]), FlatInput[i])
            /\ \A i \in 1..Len(FlatInput) :
                 Keyless(FlatInput[i]) =>
                    \A k \in 1..Len(starts) :
                        ~CarriesKeyless(StanzaAt(formatted.value, starts[k]), FlatInput[i])

C2_Witness ==
    /\ Returned /\ Accepted(search_response)
    /\ StanzaStarts(formatted.value) # <<>>
    /\ \E i, j \in 1..Len(FlatInput) :
          i # j /\ FlatInput[i].url = Missing /\ FlatInput[j].url = Str(<<>>)

\* C8 as stated: ValueError exactly when the input is neither a mapping
\* with 'results' nor a sequence of such mappings, and a mapping succeeds.
\* (A sequence may also hold plain lists of records, the "set of sets" the
\* function's error message and the spec's section 4.2 allow.)
AcceptedShape(r) ==
    \/ IsMapping(r)
    \/ r.ty = "list" /\ \A i \in 1..Len(r.items) :
                            IsMapping(r.items[i]) \/ r.items[i].ty = "list"

C8_ValueErrorExactly ==
    formatted # Pending =>
        /\ (formatted = Raise("ValueError")) <=> ~AcceptedShape(search_response)
        /\ AcceptedShape(search_response) => Returned

\* The record of the input the k-th stanza stands for.
RawChars(record) ==
    IF record.raw_content.k = "str" THEN record.raw_content.s ELSE <<>>

ShownRaw(txt, start) ==
    IF Len(txt) >= start + 16 /\ IsVal(txt[start + 16])
    THEN txt[start + 16].val ELSE <<>>

ShownMarker(txt, start) ==
    Len(txt) >= start + 17 /\ txt[start + 17] = TruncationMarker

WithoutTrailingBlanks(chars) ==
    LET keep == {0} \cup {i \in 1..Len(chars) : chars[i] \notin {" ", "\n", "\t"}}
    IN  SubSeq(chars, 1, CHOOSE n \in keep : \A m \in keep : m <= n)

\* C10 as stated: with full content on, every record's raw content is shown
\* cut to max_tokens_per_source * 4 characters and followed by the marker
\* exactly when it is longer than that, and unchanged without the marker
\* otherwise.
C10_TruncationAsStated ==
    (Returned /\ fetch_full_page /\ Accepted(search_response)) =>
        LET firsts == FirstOccurrences(FlatInput)
            starts == StanzaStarts(formatted.value)
            limit == max_tokens_per_source * 4
        IN  \A k \in 1..Len(starts) :
              LET raw == RawChars(FlatInput[firsts[k]])
                  shown == ShownRaw(formatted.value, starts[k])
                  marked == ShownMarker(formatted.value, starts[k])
              IN  /\ Len(shown) <= limit
                  /\ marked <=> Len(raw) > limit
                  /\ marked => shown = SubSeq(raw, 1, limit)
                  /\ ~marked => shown = raw

\* C10 amended: as stated, except that the last record's untruncated raw
\* content is shown without its trailing whitespace, which the final
\* strip() of the whole text removes.
C10_TruncationUpToFinalStrip ==
    (Returned /\ fetch_full_page /\ Accepted(search_response)) =>
        LET firsts == FirstOccurrences(FlatInput)
            starts == StanzaStarts(formatted.value)
            limit == max_tokens_per_source * 4
        IN  /\ Len(starts) = Len(firsts)
            /\ \A k \in 1..Len(starts) :
                 LET raw == RawChars(FlatInput[firsts[k]])
                     shown == ShownRaw(formatted.value, starts[k])
                     marked == ShownMarker(formatted.value, starts[k])
                 IN  /\ Len(shown) <= limit
                     /\ marked <=> Len(raw) > limit
                     /\ marked => shown = SubSeq(raw, 1, limit)
                     /\ ~marked => shown = IF k = Len(starts)
                                           THEN WithoutTrailingBlanks(raw) ELSE raw

C10_Witness ==
    /\ Returned /\ fetch_full_page /\ Accepted(search_response)
    /\ max_tokens_per_source = 1
    /\ Len(FlatInput) = 2
    /\ FlatInput[1].raw_content = Str(<<"x", "x", "x", "x", "x">>)
    /\ FlatInput[2].raw_content = Str(<<"x", " ">>)
    /\ LET starts == StanzaStarts(formatted.value)
       IN  /\ Len(starts) = 2
           /\ ShownMarker(formatted.value, starts[1])
           /\ ShownRaw(formatted.value, starts[1]) = <<"x", "x", "x", "x">>
           /\ ShownRaw(formatted.value, starts[2]) = <<"x">>

---------------------------------------------------------------------------
(* The search collaborators.  A provider's service either fails (an        *)
(* exception in the client library) or answers; a hit is a dict whose      *)
(* "link" is the provider's 'href' or 'link' and whose "text" its 'body'   *)
(* or 'snippet'.                                                           *)

Hit(title, link, body) == [title |-> title, link |-> link, text |-> body]

\* fetch_raw_content, lines 83-94: the page as markdown, None on any failure.
fetch_raw_content(page) == IF page.status = "raise" THEN None ELSE Str(page.value)

\* lines 105-113 and 128-136
Normalize(hits, fetch_full, pages) ==
    [i \in 1..Len(hits) |->
        LET r == hits[i]
        IN  Record(Get(r, "title", None), Get(r, "link", None), Get(r, "text", None),
                   IF fetch_full THEN fetch_raw_content(pages[i])
                   ELSE Get(r, "text", Str(<<>>)))]

\* lines 97-117
duckduckgo_search(outcome, fetch_full, pages) ==
    IF outcome.status = "raise" THEN Return(Resp(<<>>))
    ELSE Return(Resp(Normalize(outcome.value, fetch_full, pages)))

\* lines 120-137: no try around the provider's call.
searxng_search(outcome, fetch_full, pages) ==
    IF outcome.status = "raise" THEN outcome
    ELSE Return(Resp(Normalize(outcome.value, fetch_full, pages)))

\* lines 140-149: no try either; response.get('results', []).
tavily_search(outcome) ==
    IF outcome.status = "raise" THEN outcome
    ELSE Return(Resp(IF outcome.value.has_results THEN outcome.value.results ELSE <<>>))

SeeAbove == Str(<<"S", "e", "e", " ", "a", "b", "o", "v", "e", " ", "f", "o", "r", " ", "f", "u", "l", "l", " ", "c", "o", "n", "t", "e", "n", "t">>)
DefaultCitations == <<Str(<<"h", "t", "t", "p", "s", ":", "/", "/", "p", "e", "r", "p", "l", "e", "x", "i", "t", "y", ".", "a", "i">>)>>

\* f"Perplexity Search {perplexity_search_loop_count + 1}, Source {i}"
PerplexityTitle(loop_count, i) ==
    Str(<<"P", "e", "r", "p", "l", "e", "x", "i", "t", "y", " ", "S", "e", "a", "r", "c", "h", " ">> \o <<Digit[loop_count + 1]>>
        \o <<",", " ", "S", "o", "u", "r", "c", "e", " ">> \o <<Digit[i]>>)

\* lines 153-188: everything after the request is inside the try, so a
\* failed request, a body without the content and an empty citations list
\* all end in the except branch.
perplexity_search(outcome, loop_count) ==
    IF outcome.status = "raise" THEN Return(Resp(<<>>))
    ELSE LET data == outcome.value
             citations == IF data.has_citations THEN data.citations
                          ELSE DefaultCitations
         IN  IF data.content = Missing \/ citations = <<>> THEN Return(Resp(<<>>))
             ELSE Return(Resp(
                    [i \in 1..Len(citations) |->
                        IF i = 1
                        THEN Record(PerplexityTitle(loop_count, 1), citations[1],
                                    data.content, data.content)
                        ELSE Record(PerplexityTitle(loop_count, i), citations[i],
                                    SeeAbove, None)]))

Failure == Raise("Exception")

Hits ==
    {Hit(t, l, b) : t \in {Missing, Str(Title(1))},
                    l \in {Missing, Str(<<"a">>), Str(<<"b">>)},
                    b \in {Missing, Str(Content(1))}}

Pages == {Failure, Return(<<"m", "d">>)}

PerplexityData ==
    {[content |-> c, has_citations |-> has, citations |-> cs] :
        c \in {Missing, Str(Content(1))},
        has \in BOOLEAN,
        cs \in {<<>>, <<Str(<<"a">>)>>, <<Str(<<"a">>), Str(<<"b">>)>>}}

InitSearch ==
    /\ NoFormat /\ NoStrip /\ NoResearch /\ NoSession /\ NoSave
    /\ search_result = Pending
    /\ \/ \E provider \in {"duckduckgo", "searxng"} : \E fetch_full \in BOOLEAN :
            \/ search_call = [provider |-> provider, outcome |-> Failure,
                              fetch_full |-> fetch_full, pages |-> <<>>]
            \/ \E n \in 0..MaxHits : \E hits \in [1..n -> Hits] :
                  \E pages \in [1..n -> Pages] :
                    search_call = [provider |-> provider, outcome |-> Return(hits),
                                   fetch_full |-> fetch_full, pages |-> pages]
       \/ \E outcome \in {Failure, Return(RecordAsResponse(EmptyRecord))}
                         \cup {Return(Resp(DedupRecords(us))) :
                                 us \in UNION {[1..n -> Urls] : n \in 0..MaxHits}} :
            search_call = [provider |-> "tavily", outcome |-> outcome]
       \/ \E outcome \in {Failure} \cup {Return(d) : d \in PerplexityData} :
            \E loop_count \in 0..MaxHits :
                search_call = [provider |-> "perplexity", outcome |-> outcome,
                               loop_count |-> loop_count]

CallDuckDuckGo ==
    /\ search_result = Pending
    /\ search_call.provider = "duckduckgo"
    /\ search_result' = duckduckgo_search(search_call.outcome, search_call.fetch_full,
                                          search_call.pages)
    /\ UNCHANGED <<search_call, fmt_vars, strip_vars, rq_vars, sess_vars, save_vars>>

CallSearxng ==
    /\ search_result = Pending
    /\ search_call.provider = "searxng"
    /\ search_result' = searxng_search(search_call.outcome, search_call.fetch_full,
                                       search_call.pages)
    /\ UNCHANGED <<search_call, fmt_vars, strip_vars, rq_vars, sess_vars, save_vars>>

CallTavily ==
    /\ search_result = Pending
    /\ search_call.provider = "tavily"
    /\ search_result' = tavily_search(search_call.outcome)
    /\ UNCHANGED <<search_call, fmt_vars, strip_vars, rq_vars, sess_vars, save_vars>>

CallPerplexity ==
    /\ search_result = Pending
    /\ search_call.provider = "perplexity"
    /\ search_result' = perplexity_search(search_call.outcome, search_call.loop_count)
    /\ UNCHANGED <<search_call, fmt_vars, strip_vars, rq_vars, sess_vars, save_vars>>

NextSearch == CallDuckDuckGo \/ CallSearxng \/ CallTavily \/ CallPerplexity

SpecSearch == InitSearch /\ [][NextSearch]_vars

\* C3: no search collaborator raises, and when the provider's call fails
\* the collaborator returns {"results": []}.
C3_NeverRaises ==
    search_result # Pending =>
        /\ search_result.status = "return"
        /\ search_call.outcome.status = "raise" => search_result = Return(Resp(<<>>))

---------------------------------------------------------------------------
(* research_question (ai_domain_deep_research_agent.py, lines 61-99).      *)
(* A call is described by what the two providers' services and the model   *)
(* do: each fails or answers.                                              *)

MaxResults == 3       \* max_results=3, lines 66 and 67
ResultCap == 5        \* search_results[:5], line 93

NotAvailable == Str(<<"N", "/", "A">>)

\* .get('results', []), line 70
GetResults(response) == IF response.has_results THEN response.results ELSE <<>>

\* lines 64-71: both collaborators are called with their default
\* fetch_full_page=False; searxng_search's exception is not caught.
search_function(ddg, searx) ==
    LET ddg_results == duckduckgo_search(ddg, FALSE, <<>>)
        searx_results == searxng_search(searx, FALSE, <<>>)
    IN  IF searx_results.status = "raise" THEN searx_results
        ELSE Return(GetResults(ddg_results.value) \o GetResults(searx_results.value))

\* The mutant of TopResults: no cap.
TopResultsUncapped(search_results) == search_results

\* line 93
TopResults(search_results) == Slice(search_results, ResultCap)

\* line 92
ContextEntry(result) ==
    <<L("Title: "), V(Fmt(Get(result, "title", NotAvailable))),
      L("\nURL: "), V(Fmt(Get(result, "url", NotAvailable))),
      L("\nContent: "), V(Fmt(Get(result, "content", NotAvailable))), L("\n")>>

\* "\n".join(...), lines 91-94
RECURSIVE JoinEntries(_)
JoinEntries(results) ==
    IF results = <<>> THEN <<>>
    ELSE IF Len(results) = 1 THEN ContextEntry(results[1])
    ELSE ContextEntry(Head(results)) \o <<L("\n")>> \o JoinEntries(Tail(results))

\* The mutant of FormattedResults: a header where there is no result.
FormattedResultsWithHeader(search_results) ==
    IF search_results = <<>> THEN <<L("Sources:")>>
    ELSE JoinEntries(TopResults(search_results))

FormattedResults(search_results) == JoinEntries(TopResults(search_results))

\* lines 61-99: the context handed to the model (None when the call ended
\* before it was built), the calls of research_agent.run (line 96) and how
\* the call ended.
research_question(call) ==
    LET search_results == search_function(call.ddg, call.searx)
    IN  IF search_results.status = "raise"
        THEN [context |-> None, runs |-> 0, outcome |-> search_results]
        ELSE [context |-> Str(FormattedResults(search_results.value)),
              runs |-> 1,
              outcome |-> IF call.llm.status = "raise" THEN call.llm
                          ELSE Return(call.llm.value)]

Answers == {<<"A", "1">>, <<"A", "2">>}

Links == {Missing, Str(<<>>), Str(<<"a">>), Str(<<"b">>)}

\* The hits of a provider: numbered titles from `first` on, one body.
ProviderHits(links, first) ==
    [i \in 1..Len(links) |-> Hit(Str(Title(first + i - 1)), links[i], Str(Content(1)))]

ProviderOutcomes(first) ==
    {Failure} \cup {Return(ProviderHits(links, first)) :
                      links \in UNION {[1..n -> Links] : n \in 0..MaxResults}}

InitResearch ==
    /\ NoFormat /\ NoStrip /\ NoSearch /\ NoSession /\ NoSave
    /\ rq_result = Pending
    /\ \E ddg \in ProviderOutcomes(1) : \E searx \in ProviderOutcomes(MaxResults + 1) :
         \E llm \in {Failure, Return(<<"A", "1">>)} :
            rq_call = [ddg |-> ddg, searx |-> searx, llm |-> llm]

ResearchReturns ==
    /\ rq_result = Pending
    /\ research_question(rq_call).outcome.status = "return"
    /\ rq_result' = research_question(rq_call)
    /\ UNCHANGED <<rq_call, fmt_vars, strip_vars, search_vars, sess_vars, save_vars>>

ResearchRaises ==
    /\ rq_result = Pending
    /\ research_question(rq_call).outcome.status = "raise"
    /\ rq_result' = research_question(rq_call)
    /\ UNCHANGED <<rq_call, fmt_vars, strip_vars, search_vars, sess_vars, save_vars>>

NextResearch == ResearchReturns \/ ResearchRaises

SpecResearch == InitResearch /\ [][NextResearch]_vars

---------------------------------------------------------------------------
(* The context block, read back.                                           *)

EntryStarts(txt) == SelectSeq(Indices(txt), LAMBDA i : txt[i] = L("Title: "))

EntryAt(txt, i) ==
    [title |-> txt[i + 1].val, url |-> txt[i + 3].val, content |-> txt[i + 5].val]

ContextBuilt == rq_result # Pending /\ rq_result.context # None

ContextEntries ==
    LET txt == rq_result.context.s
        starts == EntryStarts(txt)
    IN  [k \in 1..Len(starts) |-> EntryAt(txt, starts[k])]

\* What the providers returned, DuckDuckGo's hits first.
HitsOf(outcome) == IF outcome.status = "raise" THEN <<>> ELSE outcome.value
AllHits == HitsOf(rq_call.ddg) \o HitsOf(rq_call.searx)

Shown(v) == IF v = Missing \/ v = None THEN <<"N", "o", "n", "e">> ELSE v.s
ShownHit(hit) ==
    [title |-> Shown(hit.title), url |-> Shown(hit.link), content |-> Shown(hit.text)]

NonEmptyUrl(hit) == hit.link # Missing /\ hit.link # Str(<<>>)

\* C9 as stated: the context block holds at most 5 records, merged by url:
\* no two of them come from hits with the same non-empty url.
C9_CappedAndDeduplicated ==
    ContextBuilt =>
        /\ Len(ContextEntries) <= ResultCap
        /\ \A j, k \in 1..Len(ContextEntries) :
              (j < k /\ NonEmptyUrl(AllHits[j]) /\ NonEmptyUrl(AllHits[k]))
                  => ContextEntries[j].url # ContextEntries[k].url

\* C9 as amended: the context block holds, in order, the first 5 of
\* DuckDuckGo's hits followed by SearXNG's, whatever their urls.
C9_FirstFiveConcatenated ==
    ContextBuilt =>
        /\ Len(ContextEntries) = Min(ResultCap, Len(AllHits))
        /\ \A k \in 1..Len(ContextEntries) : ContextEntries[k] = ShownHit(AllHits[k])

C9_Witness ==
    /\ ContextBuilt
    /\ Len(AllHits) = 2 * MaxResults
    /\ Len(ContextEntries) = ResultCap
    /\ ContextEntries[1].url = <<"a">>
    /\ ContextEntries[4].url = <<"a">>

\* Every collaborator came back without a result (DuckDuckGo also when its
\* service failed, which it answers with no result).
ZeroResults ==
    /\ rq_result # Pending
    /\ AllHits = <<>>
    /\ rq_call.searx.status = "return"

---------------------------------------------------------------------------
(* save_report_as_html (tools.py, lines 194-211) and compile_report        *)
(* (ai_domain_deep_research_agent.py, lines 102-142).  The disk either     *)
(* takes the file, or open() fails, or write() fails.                      *)

Topics == {<<>>, <<"t">>}
Domains == {<<>>, <<"d">>}
Reports == {<<"R", "1">>, <<"R", "2">>}

\* str.replace(' ', '_')
ReplaceSpaces(s) == [k \in 1..Len(s) |-> IF s[k] = " " THEN "_" ELSE s[k]]

LowerChar(c) ==
    CASE c = "T" -> "t"
      [] c = "D" -> "d"
      [] OTHER -> c

\* str.lower()
Lower(s) == [k \in 1..Len(s) |-> LowerChar(s[k])]

ReportSuffix == <<"_", "r", "e", "p", "o", "r", "t", ".", "h", "t", "m", "l">>

\* line 205
Filename(title) == Lower(ReplaceSpaces(title)) \o ReportSuffix

DiskOk == [open |-> "ok", write |-> "ok"]
OpenFails == [open |-> "raise", write |-> "ok", error |-> <<"E", "1">>]
WriteFails == [open |-> "ok", write |-> "raise", error |-> <<"E", "2">>]
Disks == {DiskOk, OpenFails, WriteFails}

\* str(e) of the TypeError of f.write(None)
WriteTypeError == <<"T", "E">>

Saved(filename) == <<L("Successfully saved report to '"), V(filename), L("'")>>
NotSaved(error) == <<L("Failed to save report. Error: "), V(error)>>

\* The mutant of save_report_as_html: the error of open() or write() is
\* not caught.
save_report_uncaught(title, content, disk) ==
    LET filename == Filename(title)
    IN  IF disk.open = "raise"
        THEN [outcome |-> Raise("OSError"), file |-> None]
        ELSE IF content = None \/ disk.write = "raise"
        THEN [outcome |-> Raise("OSError"), file |-> Str(<<>>)]
        ELSE [outcome |-> Return(Saved(filename)), file |-> content]

\* lines 194-211: what is returned, and what the file named filename holds
\* afterwards (None: no file was made).
save_report_as_html(title, content, disk) ==
    LET filename == Filename(title)
    IN  IF disk.open = "raise"
        THEN [outcome |-> Return(NotSaved(disk.error)), file |-> None]
        ELSE IF content = None
        THEN [outcome |-> Return(NotSaved(WriteTypeError)), file |-> Str(<<>>)]
        ELSE IF disk.write = "raise"
        THEN [outcome |-> Return(NotSaved(disk.error)), file |-> Str(<<>>)]
        ELSE [outcome |-> Return(Saved(filename)), file |-> content]

\* line 136
ReportTitle(topic, domain) == topic \o <<"_">> \o domain \o <<"_", "r", "e", "s", "e", "a", "r", "c", "h", "_", "r", "e", "p", "o", "r", "t">>

\* lines 132-142: report_compiler.run() fails or returns the content;
\* assigned: lines 140-141 were reached, report_content and
\* research_complete = True are given to the session.
compile_report(call) ==
    IF call.llm.status = "raise"
    THEN [outcome |-> call.llm, save_result |-> None, assigned |-> FALSE,
          report_content |-> None]
    ELSE LET content == call.llm.value
             save == save_report_as_html(ReportTitle(call.topic, call.domain),
                                         content, call.disk)
         IN  IF save.outcome.status = "raise"
             THEN [outcome |-> save.outcome, save_result |-> None, assigned |-> FALSE,
                   report_content |-> None]
             ELSE [outcome |-> Return(content),
                   save_result |-> save.outcome.value,
                   assigned |-> TRUE, report_content |-> content]

CompileCalls ==
    {[topic |-> topic, domain |-> domain, llm |-> llm, disk |-> disk] :
        topic \in Topics, domain \in Domains,
        llm \in {Failure} \cup {Return(Str(r)) : r \in Reports},
        disk \in Disks}

TitleChars == {"T", "a", " ", "/"}
Titles(max) == UNION {[1..n -> TitleChars] : n \in 0..max}
Contents == {None, Str(<<>>)} \cup {Str(r) : r \in Reports}

InitSave ==
    /\ NoFormat /\ NoStrip /\ NoSearch /\ NoResearch /\ NoSession
    /\ save_result = Pending
    /\ \/ \E title \in Titles(MaxTitleLen) : \E content \in Contents : \E disk \in Disks :
            save_call = [fn |-> "save_report_as_html", title |-> title,
                         content |-> content, disk |-> disk]
       \/ \E topic \in Topics : \E domain \in Domains : \E disk \in Disks :
            \E llm \in {Failure} \cup {Return(c) : c \in Contents} :
                save_call = [fn |-> "compile_report", topic |-> topic,
                             domain |-> domain, llm |-> llm, disk |-> disk]

SaveReport ==
    /\ save_result = Pending
    /\ save_call.fn = "save_report_as_html"
    /\ save_result' = save_report_as_html(save_call.title, save_call.content,
                                          save_call.disk)
    /\ UNCHANGED <<save_call, fmt_vars, strip_vars, search_vars, rq_vars, sess_vars>>

CompileReport ==
    /\ save_result = Pending
    /\ save_call.fn = "compile_report"
    /\ save_result' = compile_report(save_call)
    /\ UNCHANGED <<save_call, fmt_vars, strip_vars, search_vars, rq_vars, sess_vars>>

NextSave == SaveReport \/ CompileReport

SpecSave == InitSave /\ [][NextSave]_vars

---------------------------------------------------------------------------
(* Claims about the persistence step.                                      *)

SaveCalled == save_result # Pending /\ save_call.fn = "save_report_as_html"
CompileCalled == save_result # Pending /\ save_call.fn = "compile_report"

Written == save_call.disk = DiskOk /\ save_call.content # None

EndsWith(s, suffix) ==
    /\ Len(s) >= Len(suffix)
    /\ SubSeq(s, Len(s) - Len(suffix) + 1, Len(s)) = suffix

\* C12: save_report_as_html never raises; it returns the success string
\* with the file's name when the content was written as given, and the
\* failure string with the error's message otherwise; compile_report goes
\* on to its end whatever the saving did.
C12_SaveNeverRaises ==
    /\ SaveCalled =>
          /\ save_result.outcome.status = "return"
          /\ LET message == save_result.outcome.value
             IN  IF Written
                 THEN /\ message[1] = L("Successfully saved report to '")
                      /\ EndsWith(message[2].val, ReportSuffix)
                      /\ Len(message[2].val) = Len(save_call.title) + Len(ReportSuffix)
                      /\ save_result.file = save_call.content
                 ELSE /\ message[1] = L("Failed to save report. Error: ")
                      /\ message[2].val \in {OpenFails.error, WriteFails.error,
                                             WriteTypeError}
    /\ (CompileCalled /\ save_call.llm.status = "return") =>
          /\ save_result.outcome = Return(save_call.llm.value)
          /\ save_result.report_content = save_call.llm.value
          /\ save_result.assigned
          /\ save_result.save_result # None

C12_Witness ==
    /\ CompileCalled
    /\ save_call.llm = Return(Str(<<"R", "1">>))
    /\ save_call.disk = WriteFails
    /\ save_result.save_result = NotSaved(WriteFails.error)
    /\ save_result.report_content = Str(<<"R", "1">>)

---------------------------------------------------------------------------
(* The Streamlit session (main, lines 145-299).  Every click reruns the    *)
(* script from the top with the session state kept; at most one button is  *)
(* True in a rerun, so a rerun runs at most one stage.  pc is the stage    *)
(* the current rerun is in, "idle" between reruns.                         *)

\* str.split('\n')
RECURSIVE SplitLines(_)
SplitLines(s) ==
    LET k == Find(s, <<"\n">>)
    IN  IF k = -1 THEN <<s>>
        ELSE <<SubSeq(s, 1, k)>> \o SplitLines(SubSeq(s, k + 2, Len(s)))

\* str.strip()
StripStr(s) == LStripChars(RStripChars(s))

\* line 56: [q.strip() for q in questions_only.split('\n') if q.strip()]
QuestionsList(questions_only) ==
    LET lines == SplitLines(questions_only)
    IN  SelectSeq([k \in 1..Len(lines) |-> StripStr(lines[k])], LAMBDA q : q # <<>>)

\* What extract_questions_after_think (src.processing) hands back for the
\* model's reply: any text.
QuestionChars == {"q", " ", "\n"}
QuestionTexts(max) == UNION {[1..n -> QuestionChars] : n \in 0..max}

\* What the services do while one question is researched.
ResearchCalls ==
    {[ddg |-> ddg, searx |-> searx, llm |-> llm] :
        ddg \in {Failure, Return(<<>>)},
        searx \in {Failure, Return(<<>>)},
        llm \in {Failure} \cup {Return(a) : a \in Answers}}

\* line 231, left of the button
GenerateEnabled(topic, domain) == topic # <<>> /\ domain # <<>>

\* The mutant of StartResearchEnabled: the button is always shown.
StartResearchUnguarded == TRUE

\* line 241, left of the button
StartResearchEnabled == questions # <<>>

\* line 271, left of the button
CompileEnabled == question_answers # <<>>

\* lines 231-232: the click on "Generate Research Questions"
ClickGenerate ==
    /\ pc = "idle"
    /\ \E topic \in Topics : \E domain \in Domains : GenerateEnabled(topic, domain)
    /\ pc' = "generate"
    /\ UNCHANGED <<questions, question_answers, report_content, research_complete,
                   loop_i, local_question_answers, completed>>
    /\ UNCHANGED <<fmt_vars, strip_vars, search_vars, rq_vars, save_vars>>

\* generate_questions, lines 44-58, to its return
GenerateReturns ==
    /\ pc = "generate"
    /\ \E questions_only \in QuestionTexts(MaxQuestionsText) :
          questions' = QuestionsList(questions_only)
    /\ completed' = completed \cup {"generate"}
    /\ pc' = "idle"
    /\ UNCHANGED <<question_answers, report_content, research_complete,
                   loop_i, local_question_answers>>
    /\ UNCHANGED <<fmt_vars, strip_vars, search_vars, rq_vars, save_vars>>

\* generate_questions leaves by an exception of the model's call
GenerateRaises ==
    /\ pc = "generate"
    /\ pc' = "idle"
    /\ UNCHANGED <<questions, question_answers, report_content, research_complete,
                   loop_i, local_question_answers, completed>>
    /\ UNCHANGED <<fmt_vars, strip_vars, search_vars, rq_vars, save_vars>>

\* lines 241-247: the click on "Start Research"
ClickStartResearch ==
    /\ pc = "idle"
    /\ StartResearchEnabled
    /\ pc' = "research"
    /\ local_question_answers' = <<>>
    /\ loop_i' = 1
    /\ UNCHANGED <<questions, question_answers, report_content, research_complete,
                   completed>>
    /\ UNCHANGED <<fmt_vars, strip_vars, search_vars, rq_vars, save_vars>>

\* lines 250-265: one turn of the loop, research_question returning
ResearchAnswers ==
    /\ pc = "research"
    /\ loop_i <= Len(questions)
    /\ \E call \in ResearchCalls :
          LET answer == research_question(call).outcome
          IN  /\ answer.status = "return"
              /\ local_question_answers' =
                    Append(local_question_answers,
                           [question |-> questions[loop_i], answer |-> answer.value])
    /\ loop_i' = loop_i + 1
    /\ UNCHANGED <<questions, question_answers, report_content, research_complete,
                   pc, completed>>
    /\ UNCHANGED <<fmt_vars, strip_vars, search_vars, rq_vars, save_vars>>

\* The mutant of ResearchAborts: the answers found so far are stored.
ResearchAbortsStoringPartial ==
    /\ pc = "research"
    /\ loop_i <= Len(questions)
    /\ \E call \in ResearchCalls : research_question(call).outcome.status = "raise"
    /\ pc' = "idle"
    /\ question_answers' = local_question_answers
    /\ local_question_answers' = <<>>
    /\ UNCHANGED <<questions, report_content, research_complete, loop_i, completed>>
    /\ UNCHANGED <<fmt_vars, strip_vars, search_vars, rq_vars, save_vars>>

\* lines 250-258: research_question raises; nothing around line 258
\* catches it, so the rerun ends there.
ResearchAborts ==
    /\ pc = "research"
    /\ loop_i <= Len(questions)
    /\ \E call \in ResearchCalls : research_question(call).outcome.status = "raise"
    /\ pc' = "idle"
    /\ local_question_answers' = <<>>
    /\ UNCHANGED <<questions, question_answers, report_content, research_complete,
                   loop_i, completed>>
    /\ UNCHANGED <<fmt_vars, strip_vars, search_vars, rq_vars, save_vars>>

\* line 268, after the loop
ResearchStore ==
    /\ pc = "research"
    /\ loop_i > Len(questions)
    /\ question_answers' = local_question_answers
    /\ local_question_answers' = <<>>
    /\ completed' = completed \cup {"research"}
    /\ pc' = "idle"
    /\ UNCHANGED <<questions, report_content, research_complete, loop_i>>
    /\ UNCHANGED <<fmt_vars, strip_vars, search_vars, rq_vars, save_vars>>

\* lines 271-272: the click on "Compile Final Report"
ClickCompile ==
    /\ pc = "idle"
    /\ CompileEnabled
    /\ pc' = "compile"
    /\ UNCHANGED <<questions, question_answers, report_content, research_complete,
                   loop_i, local_question_answers, completed>>
    /\ UNCHANGED <<fmt_vars, strip_vars, search_vars, rq_vars, save_vars>>

\* compile_report, lines 102-142, to its return
CompileReturns ==
    /\ pc = "compile"
    /\ \E call \in CompileCalls :
          LET compiled == compile_report(call)
          IN  /\ compiled.outcome.status = "return"
              /\ report_content' = compiled.report_content.s
              /\ research_complete' = compiled.assigned
    /\ completed' = completed \cup {"compile"}
    /\ pc' = "idle"
    /\ UNCHANGED <<questions, question_answers, loop_i, local_question_answers>>
    /\ UNCHANGED <<fmt_vars, strip_vars, search_vars, rq_vars, save_vars>>

\* compile_report leaves by an exception of the model's call (line 132)
CompileRaises ==
    /\ pc = "compile"
    /\ \E call \in CompileCalls : compile_report(call).outcome.status = "raise"
    /\ pc' = "idle"
    /\ UNCHANGED <<questions, question_answers, report_content, research_complete,
                   loop_i, local_question_answers, completed>>
    /\ UNCHANGED <<fmt_vars, strip_vars, search_vars, rq_vars, save_vars>>

Init == NoFormat /\ NoStrip /\ NoSearch /\ NoResearch /\ NoSession /\ NoSave

Next ==
    \/ ClickGenerate \/ GenerateReturns \/ GenerateRaises
    \/ ClickStartResearch \/ ResearchAnswers \/ ResearchAborts \/ ResearchStore
    \/ ClickCompile \/ CompileReturns \/ CompileRaises

Spec == Init /\ [][Next]_vars

---------------------------------------------------------------------------
(* Claims about the session.                                               *)

\* C4: a question whose research fails does not abort the questions after
\* it: the research stage never ends while a question after the one at hand
\* is still to be researched.
C4_NoAbort ==
    [][(pc = "research" /\ pc' # "research") => loop_i >= Len(questions)]_vars

\* C5: the stored answers are no more than the stored questions, each
\* answer's question is the stored question at the same position, and no
\* question appears twice.
C5_AnswersMatchQuestions ==
    /\ Len(question_answers) <= Len(questions)
    /\ \A k \in 1..Len(question_answers) :
          k <= Len(questions) => question_answers[k].question = questions[k]
    /\ \A j, k \in 1..Len(question_answers) :
          j < k => question_answers[j].question # question_answers[k].question

\* C6: research starts only between reruns, after a generation has
\* returned and with questions stored; compilation starts only between
\* reruns, after a research stage has stored its answers.
C6_StrictPipeline ==
    [][/\ (pc # "research" /\ pc' = "research")
            => (pc = "idle" /\ "generate" \in completed /\ questions # <<>>)
       /\ (pc # "compile" /\ pc' = "compile")
            => (pc = "idle" /\ "research" \in completed /\ question_answers # <<>>)
      ]_vars

C6_Witness ==
    /\ pc = "compile"
    /\ {"generate", "research"} \subseteq completed
    /\ Len(question_answers) = 2

\* C13: a report shown as complete is the report of the stored answers:
\* from one state where the final report is shown to the next, the stored
\* questions and answers, which the report was compiled from, are the same.
C13_ReportOfStoredAnswers ==
    [][(/\ research_complete /\ report_content # <<>>
        /\ research_complete' /\ report_content' # <<>>)
          => (questions' = questions /\ question_answers' = question_answers)]_vars

\* C14: the stored answers change only when a research run ends after its
\* last question, and are then one pair per stored question, in order; a
\* run that ends earlier leaves them as they were.
C14_AtomicCommit ==
    [][/\ question_answers' # question_answers
            => (pc = "research" /\ pc' = "idle" /\ loop_i > Len(questions))
       /\ (pc = "research" /\ pc' = "idle" /\ loop_i > Len(questions))
            => /\ Len(question_answers') = Len(questions)
               /\ \A k \in 1..Len(questions) :
                     question_answers'[k].question = questions[k]
       /\ (pc = "research" /\ pc' = "idle" /\ loop_i <= Len(questions))
            => question_answers' = question_answers
      ]_vars

C14_Witness ==
    /\ pc = "idle"
    /\ "research" \in completed
    /\ Len(questions) = 2
    /\ Len(question_answers) = 2
    /\ question_answers[1].question # question_answers[2].question
    /\ question_answers[1].answer # question_answers[2].answer

====
